---- MODULE Spec2Model ----
(***************************************************************************)
(* HWID lock (hwid_lock.py): a hardware fingerprint generator and an       *)
(* allow-list store kept in a line-delimited text file.                    *)
(*                                                                         *)
(* Strings are sequences of one-character strings.  The allow-list file is *)
(* its content, character by character, newlines included, so that an      *)
(* append, a rewrite and "byte-for-byte unchanged" are what they are in    *)
(* the program.  A fingerprint is one character long (32 in the program);  *)
(* the header texts of the file are shortened to their comment marker.     *)
(*                                                                         *)
(* Specifications:                                                         *)
(*   Spec       the calls of one Store, one at a time, no fault            *)
(*   SpecIO     Spec, and mutations whose open() for writing raises        *)
(*   SpecRead   Spec, and is_authorized() whose read raises                *)
(*   SpecWrite  a constructor-created file, and mutations whose write      *)
(*              raises after the file was opened                           *)
(*   SpecGen    get_current_hwid() on every machine of a bounded set       *)
(*   SpecLoad   _load_authorized_hwids() on every content of a bounded set *)
(*   SpecConc   two processes, each call split into its load and its write *)
(***************************************************************************)
EXTENDS Naturals, Sequences, FiniteSets

(***************************************************************************)
(* Bounds of the model.                                                    *)
(***************************************************************************)
\* lines the add operations of one run may append to the file
MaxAppends == 2

(***************************************************************************)
(* Characters and strings.                                                 *)
(***************************************************************************)
NL == "\n"
SPACE == " "
HASH == "#"

\* str.upper(), one character
UpperChar(c) ==
    CASE c = "a" -> "A"
      [] c = "b" -> "B"
      [] c = "r" -> "R"
      [] OTHER -> c

\* str.upper()
Upper(s) == [i \in 1..Len(s) |-> UpperChar(s[i])]

\* the characters str.strip() removes
IsSpace(c) == c \in {SPACE, NL}

RECURSIVE LStrip(_)
LStrip(s) ==
    IF s = <<>> THEN <<>>
    ELSE IF IsSpace(Head(s)) THEN LStrip(Tail(s))
    ELSE s

RECURSIVE RStrip(_)
RStrip(s) ==
    IF s = <<>> THEN <<>>
    ELSE IF IsSpace(s[Len(s)]) THEN RStrip(SubSeq(s, 1, Len(s) - 1))
    ELSE s

\* str.strip()
Strip(s) == LStrip(RStrip(s))

\* str.startswith('#')
StartsWithHash(s) == Len(s) > 0 /\ s[1] = HASH

\* x in list
InList(x, list) == \E i \in 1..Len(list) : list[i] = x

\* list.remove(x): the first occurrence only
RECURSIVE ListRemove(_, _)
ListRemove(list, x) ==
    IF list = <<>> THEN <<>>
    ELSE IF Head(list) = x THEN Tail(list)
    ELSE <<Head(list)>> \o ListRemove(Tail(list), x)

(***************************************************************************)
(* Fingerprint Generator.                                                  *)
(*                                                                         *)
(* A machine is what the platform calls answer on it: its system, the      *)
(* outcome of each hardware probe in the order the code runs them          *)
(* (ok = FALSE: the probe raised, and the code skips it), and the three    *)
(* generic values platform.node(), platform.machine(),                     *)
(* platform.processor().                                                   *)
(***************************************************************************)
Probe(ok, val) == [ok |-> ok, val |-> val]

RECURSIVE ProbeValues(_)
\* the components list a _get_<platform>_hwid builds: a probe that raised
\* appends nothing
ProbeValues(probes) ==
    IF probes = <<>> THEN <<>>
    ELSE IF Head(probes).ok
         THEN <<Head(probes).val>> \o ProbeValues(Tail(probes))
         ELSE ProbeValues(Tail(probes))

GetWindowsHwid(m) == ProbeValues(m.probes)
GetLinuxHwid(m) == ProbeValues(m.probes)
GetMacosHwid(m) == ProbeValues(m.probes)
GetGenericHwid(m) == <<m.node, m.machine, m.processor>>

RECURSIVE JoinPipe(_)
\* "|".join(filter(None, hwid_components))
JoinPipe(comps) ==
    IF comps = <<>> THEN <<>>
    ELSE IF Head(comps) = <<>> THEN JoinPipe(Tail(comps))
    ELSE LET rest == JoinPipe(Tail(comps))
         IN  IF rest = <<>> THEN Head(comps) ELSE Head(comps) \o <<"|">> \o rest

CharCode(c) ==
    CASE c = "x" -> 1
      [] c = "y" -> 2
      [] c = "|" -> 3
      [] c = "n" -> 5
      [] c = "o" -> 6
      [] c = "i" -> 7
      [] c = "p" -> 11
      [] OTHER -> 13

RECURSIVE Mix(_, _)
Mix(s, h) == IF s = <<>> THEN h ELSE Mix(Tail(s), (h * 3 + CharCode(Head(s))) % 4)

\* hashlib.sha256(s.encode()).hexdigest(): lower-case hexadecimal digits; the
\* model's digest has two digits and four values
Sha256Hex(s) ==
    LET h == Mix(s, 0)
    IN  <<IF h \div 2 = 0 THEN "b" ELSE "a", IF h % 2 = 0 THEN "b" ELSE "a">>

\* [:32] of the digest: the model keeps the first digit of the two
Truncate(d) == SubSeq(d, 1, 1)

\* get_current_hwid
GetCurrentHwid(m) ==
    IF ~m.raises
    THEN LET hwid_components ==
                 IF m.system = "windows" THEN GetWindowsHwid(m)
                 ELSE IF m.system = "linux" THEN GetLinuxHwid(m)
                 ELSE IF m.system = "darwin" THEN GetMacosHwid(m)
                 ELSE GetGenericHwid(m)
             combined == JoinPipe(hwid_components)
         IN  Upper(Truncate(Sha256Hex(combined)))
    ELSE LET fallback == m.node \o m.machine \o m.processor
         IN  Upper(Truncate(Sha256Hex(fallback)))

(***************************************************************************)
(* Authorization Store: the file.                                          *)
(*                                                                         *)
(* A file is [exists, data]: data is its content, a sequence of            *)
(* characters (empty when the file does not exist).                        *)
(***************************************************************************)
NoFile == [exists |-> FALSE, data |-> <<>>]
FileOf(data) == [exists |-> TRUE, data |-> data]

\* self.MASTER_HWID as shipped: "REPLACE_WITH_YOUR_MASTER_HWID"
PlaceholderMaster == <<"R">>

\* the three comment lines both writers of the whole file put first:
\* "# Authorized Hardware IDs", "# Generated on: <node>", "# Master HWID: <master>"
HeaderLines(node, master) ==
    <<HASH, NL>> \o (<<HASH>> \o node \o <<NL>>) \o (<<HASH>> \o master \o <<NL>>)

\* fault: _create_authorized_file without its fourth write, the master line
CreateAuthorizedFile_HeaderOnly(node, master) ==
    FileOf(HeaderLines(node, master))

\* _create_authorized_file: open(..., 'w') and four writes
CreateAuthorizedFile(node, master) ==
    FileOf(HeaderLines(node, master) \o master \o <<NL>>)

\* the position of the first newline of s, 0 when it has none
FirstNewline(s) ==
    IF \E i \in 1..Len(s) : s[i] = NL
    THEN CHOOSE i \in 1..Len(s) : s[i] = NL /\ \A j \in 1..(i - 1) : s[j] # NL
    ELSE 0

RECURSIVE ReadLines(_)
\* "for line in f": each line with its newline; a last line without one is
\* still a line
ReadLines(data) ==
    IF data = <<>> THEN <<>>
    ELSE LET k == FirstNewline(data)
         IN  IF k = 0 THEN <<data>>
             ELSE <<SubSeq(data, 1, k)>> \o ReadLines(SubSeq(data, k + 1, Len(data)))

RECURSIVE KeepEntries_NoStrip(_)
\* fault: the loop body without line.strip() (line 218), the newline apart
KeepEntries_NoStrip(lines) ==
    IF lines = <<>> THEN <<>>
    ELSE LET line == SelectSeq(Head(lines), LAMBDA c : c # NL)
         IN  IF line # <<>> /\ ~StartsWithHash(line)
             THEN <<Upper(line)>> \o KeepEntries_NoStrip(Tail(lines))
             ELSE KeepEntries_NoStrip(Tail(lines))

RECURSIVE KeepEntries(_)
\* the loop body of _load_authorized_hwids over the lines read
KeepEntries(lines) ==
    IF lines = <<>> THEN <<>>
    ELSE LET line == Strip(Head(lines))
         IN  IF line # <<>> /\ ~StartsWithHash(line)
             THEN <<Upper(line)>> \o KeepEntries(Tail(lines))
             ELSE KeepEntries(Tail(lines))

\* _load_authorized_hwids
LoadAuthorizedHwids(f) ==
    IF f.exists THEN KeepEntries(ReadLines(f.data)) ELSE <<>>

RECURSIVE WriteLines(_)
\* for auth_hwid in authorized_hwids: f.write(f"{auth_hwid}\n")
WriteLines(list) ==
    IF list = <<>> THEN <<>> ELSE Head(list) \o <<NL>> \o WriteLines(Tail(list))

(***************************************************************************)
(* Authorization Store: the operations.  Each is the whole method: what it *)
(* returns (ret for a bool, hwids for a list), what it prints (msg, with   *)
(* the fingerprint left out of the text) and the file it leaves.           *)
(***************************************************************************)
MsgNone == ""
MsgAddDenied == "Error: Only master HWID can add new HWIDs"
MsgAdded == "HWID added to authorized list"
MsgAlready == "HWID already authorized"
MsgRemoveDenied == "Error: Only master HWID can remove HWIDs"
MsgProtected == "Error: Cannot remove master HWID"
MsgRemoved == "HWID removed from authorized list"
MsgNotFound == "HWID not found in authorized list"
MsgListDenied == "Error: Only master HWID can list authorized HWIDs"
MsgAddError == "Error adding HWID"
MsgRemoveError == "Error removing HWID"

Outcome(f, ret, hwids, msg) == [file |-> f, ret |-> ret, hwids |-> hwids, msg |-> msg]

\* is_master
IsMaster(master, m) == GetCurrentHwid(m) = master

\* fault: is_authorized testing the first entry only
IsAuthorized_FirstOnly(f, m) ==
    LET authorized_hwids == LoadAuthorizedHwids(f)
    IN  authorized_hwids # <<>> /\ authorized_hwids[1] = GetCurrentHwid(m)

\* is_authorized
IsAuthorized(f, m) == InList(GetCurrentHwid(m), LoadAuthorizedHwids(f))

\* fault: add_hwid without the is_master() check of lines 259-261
AddHwid_NoGate(f, master, m, arg) ==
    LET authorized_hwids == LoadAuthorizedHwids(f)
        hwid == Upper(arg)
    IN  IF ~InList(hwid, authorized_hwids)
        THEN Outcome(FileOf(f.data \o hwid \o <<NL>>), TRUE, <<>>, MsgAdded)
        ELSE Outcome(f, TRUE, <<>>, MsgAlready)

\* fault: add_hwid without the membership test of line 267
AddHwid_Always(f, master, m, arg) ==
    IF ~IsMaster(master, m) THEN Outcome(f, FALSE, <<>>, MsgAddDenied)
    ELSE Outcome(FileOf(f.data \o Upper(arg) \o <<NL>>), TRUE, <<>>, MsgAdded)

\* add_hwid
AddHwid(f, master, m, arg) ==
    IF ~IsMaster(master, m) THEN Outcome(f, FALSE, <<>>, MsgAddDenied)
    ELSE LET authorized_hwids == LoadAuthorizedHwids(f)
             hwid == Upper(arg)
         IN  IF ~InList(hwid, authorized_hwids)
             THEN Outcome(FileOf(f.data \o hwid \o <<NL>>), TRUE, <<>>, MsgAdded)
             ELSE Outcome(f, TRUE, <<>>, MsgAlready)

\* fault: the rewrite of lines 306-311 done before the membership test, so
\* that a target not found still has the file rewritten
RemoveEntry_Rewriting(f, master, m, arg) ==
    LET authorized_hwids == LoadAuthorizedHwids(f)
        hwid == Upper(arg)
        rewritten == FileOf(HeaderLines(m.node, master)
                              \o WriteLines(ListRemove(authorized_hwids, hwid)))
    IN  IF InList(hwid, authorized_hwids)
        THEN Outcome(rewritten, TRUE, <<>>, MsgRemoved)
        ELSE Outcome(rewritten, FALSE, <<>>, MsgNotFound)

\* what remove_hwid does once both of its refusals are passed (lines 298-317)
RemoveEntry(f, master, m, arg) ==
    LET authorized_hwids == LoadAuthorizedHwids(f)
        hwid == Upper(arg)
    IN  IF InList(hwid, authorized_hwids)
        THEN Outcome(FileOf(HeaderLines(m.node, master)
                              \o WriteLines(ListRemove(authorized_hwids, hwid))),
                     TRUE, <<>>, MsgRemoved)
        ELSE Outcome(f, FALSE, <<>>, MsgNotFound)

\* fault: remove_hwid without the master-entry refusal of lines 294-296
RemoveHwid_NoProtect(f, master, m, arg) ==
    IF ~IsMaster(master, m) THEN Outcome(f, FALSE, <<>>, MsgRemoveDenied)
    ELSE RemoveEntry(f, master, m, arg)

\* fault: remove_hwid comparing the argument with the master as given, not
\* upper-cased (line 294 without .upper())
RemoveHwid_NoUpper(f, master, m, arg) ==
    IF ~IsMaster(master, m) THEN Outcome(f, FALSE, <<>>, MsgRemoveDenied)
    ELSE IF arg = master THEN Outcome(f, FALSE, <<>>, MsgProtected)
    ELSE RemoveEntry(f, master, m, arg)

\* remove_hwid
RemoveHwid(f, master, m, arg) ==
    IF ~IsMaster(master, m) THEN Outcome(f, FALSE, <<>>, MsgRemoveDenied)
    ELSE IF Upper(arg) = master THEN Outcome(f, FALSE, <<>>, MsgProtected)
    ELSE RemoveEntry(f, master, m, arg)

\* list_authorized_hwids
ListAuthorizedHwids(f, master, m) ==
    IF ~IsMaster(master, m) THEN Outcome(f, FALSE, <<>>, MsgListDenied)
    ELSE Outcome(f, FALSE, LoadAuthorizedHwids(f), MsgNone)

\* add_hwid when open(self.authorized_file, 'a') raises: the except branch
\* of lines 276-278; nothing was opened for an already present fingerprint
AddHwidOpenFails(f, master, m, arg) ==
    IF ~IsMaster(master, m) THEN Outcome(f, FALSE, <<>>, MsgAddDenied)
    ELSE IF ~InList(Upper(arg), LoadAuthorizedHwids(f))
         THEN Outcome(f, FALSE, <<>>, MsgAddError)
         ELSE Outcome(f, TRUE, <<>>, MsgAlready)

\* fault: remove_hwid returning True from its except branch
RemoveHwidOpenFails_Quiet(f, master, m, arg) ==
    IF ~IsMaster(master, m) THEN Outcome(f, FALSE, <<>>, MsgRemoveDenied)
    ELSE IF Upper(arg) = master THEN Outcome(f, FALSE, <<>>, MsgProtected)
    ELSE IF InList(Upper(arg), LoadAuthorizedHwids(f))
         THEN Outcome(f, TRUE, <<>>, MsgRemoveError)
         ELSE Outcome(f, FALSE, <<>>, MsgNotFound)

\* remove_hwid when open(self.authorized_file, 'w') raises: the except branch
\* of lines 319-321, the file not yet truncated
RemoveHwidOpenFails(f, master, m, arg) ==
    IF ~IsMaster(master, m) THEN Outcome(f, FALSE, <<>>, MsgRemoveDenied)
    ELSE IF Upper(arg) = master THEN Outcome(f, FALSE, <<>>, MsgProtected)
    ELSE IF InList(Upper(arg), LoadAuthorizedHwids(f))
         THEN Outcome(f, FALSE, <<>>, MsgRemoveError)
         ELSE Outcome(f, FALSE, <<>>, MsgNotFound)

(***************************************************************************)
(* The state machine: one Store on one allow-list file, called from        *)
(* machines whose fingerprints differ.                                     *)
(***************************************************************************)
VARIABLES
    file,             \* the allow-list file at self.authorized_file
    MASTER_HWID,      \* self.MASTER_HWID
    authorized_file,  \* self.authorized_file
    created,          \* the file was written by _create_authorized_file
    appends,          \* lines appended by add_hwid so far
    last,             \* the last call: its name, the caller's fingerprint,
                      \* its argument and its outcome
    host,             \* the machine get_current_hwid() is evaluated on
    procs             \* the add_hwid and remove_hwid calls of two processes
                      \* sharing the file, each between its load and its write

vars == <<file, MASTER_HWID, authorized_file, created, appends, last, host, procs>>

\* a linux machine whose machine-id reads "y", whose cpuinfo probe raised
\* and whose product_uuid is empty
MachineA ==
    [system |-> "linux", raises |-> FALSE,
     probes |-> <<Probe(TRUE, <<"y">>), Probe(FALSE, <<>>), Probe(TRUE, <<>>)>>,
     node |-> <<"n">>, machine |-> <<"i">>, processor |-> <<"p">>]

\* a windows machine whose first wmic call answers "x" and whose others raised
MachineB ==
    [system |-> "windows", raises |-> FALSE,
     probes |-> <<Probe(TRUE, <<"x">>), Probe(FALSE, <<>>), Probe(FALSE, <<>>)>>,
     node |-> <<"o">>, machine |-> <<"i">>, processor |-> <<"p">>]

Machines == {MachineA, MachineB}

\* the master is the placeholder, or the fingerprint the operator copied
\* from a first run on their machine
Masters == {PlaceholderMaster, GetCurrentHwid(MachineA)}

\* authorized_file = None gives the default path
DefaultPath == "C:\\hwid sys\\authorized_hwids.txt"
Paths == {DefaultPath}

\* arguments of add_hwid and remove_hwid
ArgStrings ==
    {<<"A">>, <<"a">>, <<"B">>, <<"b">>, <<SPACE, "B">>}

\* lines of a file that was on disk before the Store was constructed
DiskLines == {<<"A">>, <<"b">>, <<HASH, "B">>, <<>>}

\* such files: up to two lines, the last one with or without its newline
DiskFiles ==
    {FileOf(<<>>)}
    \cup {FileOf(l \o e) : l \in DiskLines, e \in {<<>>, <<NL>>}}
    \cup {FileOf(k \o <<NL>> \o l \o e) : k \in DiskLines, l \in DiskLines, e \in {<<>>, <<NL>>}}

Call(op, cur, arg, ret, hwids, msg) ==
    [op |-> op, cur |-> cur, arg |-> arg, ret |-> ret, hwids |-> hwids, msg |-> msg]

\* the two processes that share the file
Procs == {"p", "q"}

\* a process that is in no call
IdleCall ==
    [pc |-> "idle", op |-> "none", arg |-> <<>>, loaded |-> <<>>,
     ret |-> FALSE, msg |-> MsgNone]

\* no process is in a call; orig is the file the calls started from
NoCalls == [orig |-> NoFile, call |-> [p \in Procs |-> IdleCall]]

\* __init__: the file is created when it does not exist, and is missing
\* afterwards only when its creation failed
Init ==
    /\ MASTER_HWID \in Masters
    /\ authorized_file \in Paths
    /\ \/ /\ file \in DiskFiles \cup {NoFile}
          /\ created = FALSE
       \/ /\ file \in {CreateAuthorizedFile(m.node, MASTER_HWID) : m \in Machines}
          /\ created = TRUE
    /\ appends = 0
    /\ last = Call("__init__", <<>>, <<>>, FALSE, <<>>, MsgNone)
    /\ host = MachineA
    /\ procs = NoCalls

\* HWIDLock(authorized_file) again, on machine m
Construct(m) ==
    /\ file' = IF file.exists THEN file ELSE CreateAuthorizedFile(m.node, MASTER_HWID)
    /\ created' = (created \/ ~file.exists)
    /\ last' = Call("__init__", GetCurrentHwid(m), <<>>, FALSE, <<>>, MsgNone)
    /\ UNCHANGED <<MASTER_HWID, authorized_file, appends, host, procs>>

\* fault: is_authorized() creating the file it finds missing
IsAuthorizedCall_Creating(m) ==
    /\ file' = IF file.exists THEN file ELSE CreateAuthorizedFile(m.node, MASTER_HWID)
    /\ last' = Call("is_authorized", GetCurrentHwid(m), <<>>, IsAuthorized(file', m), <<>>, MsgNone)
    /\ UNCHANGED <<MASTER_HWID, authorized_file, created, appends, host, procs>>

\* is_authorized() on machine m
IsAuthorizedCall(m) ==
    /\ last' = Call("is_authorized", GetCurrentHwid(m), <<>>, IsAuthorized(file, m), <<>>, MsgNone)
    /\ UNCHANGED <<file, MASTER_HWID, authorized_file, created, appends, host, procs>>

\* is_master() on machine m
IsMasterCall(m) ==
    /\ last' = Call("is_master", GetCurrentHwid(m), <<>>, IsMaster(MASTER_HWID, m), <<>>, MsgNone)
    /\ UNCHANGED <<file, MASTER_HWID, authorized_file, created, appends, host, procs>>

\* add_hwid(arg) on machine m
Add(m, arg) ==
    LET o == AddHwid(file, MASTER_HWID, m, arg)
    IN  /\ o.file # file => appends < MaxAppends
        /\ file' = o.file
        /\ appends' = IF o.file # file THEN appends + 1 ELSE appends
        /\ last' = Call("add_hwid", GetCurrentHwid(m), arg, o.ret, o.hwids, o.msg)
        /\ UNCHANGED <<MASTER_HWID, authorized_file, created, host, procs>>

\* remove_hwid(arg) on machine m
Remove(m, arg) ==
    LET o == RemoveHwid(file, MASTER_HWID, m, arg)
    IN  /\ file' = o.file
        /\ last' = Call("remove_hwid", GetCurrentHwid(m), arg, o.ret, o.hwids, o.msg)
        /\ UNCHANGED <<MASTER_HWID, authorized_file, created, appends, host, procs>>

\* list_authorized_hwids() on machine m
List(m) ==
    LET o == ListAuthorizedHwids(file, MASTER_HWID, m)
    IN  /\ file' = o.file
        /\ last' = Call("list_authorized_hwids", GetCurrentHwid(m), <<>>, o.ret, o.hwids, o.msg)
        /\ UNCHANGED <<MASTER_HWID, authorized_file, created, appends, host, procs>>

Next ==
    \/ \E m \in Machines : Construct(m)
    \/ \E m \in Machines : IsAuthorizedCall(m)
    \/ \E m \in Machines : IsMasterCall(m)
    \/ \E m \in Machines, arg \in ArgStrings : Add(m, arg)
    \/ \E m \in Machines, arg \in ArgStrings : Remove(m, arg)
    \/ \E m \in Machines : List(m)

Spec == Init /\ [][Next]_vars

\* add_hwid(arg) on machine m, the file refusing to open for appending
AddOpenFails(m, arg) ==
    LET o == AddHwidOpenFails(file, MASTER_HWID, m, arg)
    IN  /\ file' = o.file
        /\ last' = Call("add_hwid", GetCurrentHwid(m), arg, o.ret, o.hwids, o.msg)
        /\ UNCHANGED <<MASTER_HWID, authorized_file, created, appends, host, procs>>

\* remove_hwid(arg) on machine m, the file refusing to open for writing
RemoveOpenFails(m, arg) ==
    LET o == RemoveHwidOpenFails(file, MASTER_HWID, m, arg)
    IN  /\ file' = o.file
        /\ last' = Call("remove_hwid", GetCurrentHwid(m), arg, o.ret, o.hwids, o.msg)
        /\ UNCHANGED <<MASTER_HWID, authorized_file, created, appends, host, procs>>

\* the calls of Next, and the two mutations meeting a file that cannot be
\* opened for writing
NextIO ==
    \/ Next
    \/ \E m \in Machines, arg \in ArgStrings : AddOpenFails(m, arg)
    \/ \E m \in Machines, arg \in ArgStrings : RemoveOpenFails(m, arg)

SpecIO == Init /\ [][NextIO]_vars

(***************************************************************************)
(* Reading that raises.  The loop of _load_authorized_hwids appends to     *)
(* authorized_hwids as it reads; an exception raised by open() or by a     *)
(* later read is caught and printed, and the list built so far returned.   *)
(***************************************************************************)
MsgLoadError == "Error loading authorized HWIDs"

\* _load_authorized_hwids, the read raising after k lines were delivered
\* (k = 0: open() raised, or the first read did)
LoadAuthorizedHwidsReadFails(f, k) ==
    KeepEntries(SubSeq(ReadLines(f.data), 1, k))

\* is_authorized over such a load
IsAuthorizedReadFails(f, m, k) ==
    InList(GetCurrentHwid(m), LoadAuthorizedHwidsReadFails(f, k))

\* the numbers of lines a failing read of f can have delivered
ReadFailPoints(f) ==
    {0} \cup {k \in 1..Len(ReadLines(f.data)) : k < Len(ReadLines(f.data))}

\* is_authorized() on machine m, the read of the existing file raising
IsAuthorizedReadFailsCall(m, k) ==
    /\ file.exists
    /\ last' = Call("is_authorized", GetCurrentHwid(m), <<>>,
                    IsAuthorizedReadFails(file, m, k), <<>>, MsgLoadError)
    /\ UNCHANGED <<file, MASTER_HWID, authorized_file, created, appends, host, procs>>

\* the calls of Next, and is_authorized() meeting a read error
NextRead ==
    \/ Next
    \/ \E m \in Machines : \E k \in ReadFailPoints(file) : IsAuthorizedReadFailsCall(m, k)

SpecRead == Init /\ [][NextRead]_vars

(***************************************************************************)
(* The generator on its own: get_current_hwid() evaluated on a machine     *)
(* drawn from every combination of a system, three probe outcomes (the     *)
(* probe raised, answered nothing, answered "y"), a host name, and the     *)
(* pipeline raising or not.                                                *)
(***************************************************************************)
ProbeOutcomes == {Probe(FALSE, <<>>), Probe(TRUE, <<>>), Probe(TRUE, <<"y">>)}

GenMachines ==
    {[system |-> s, raises |-> r, probes |-> <<p1, p2, p3>>,
      node |-> n, machine |-> <<"i">>, processor |-> <<"p">>] :
        s \in {"windows", "linux", "darwin", "java"}, r \in BOOLEAN,
        p1 \in ProbeOutcomes, p2 \in ProbeOutcomes, p3 \in ProbeOutcomes,
        n \in {<<"n">>, <<"o">>}}

InitGen ==
    /\ host \in GenMachines
    /\ MASTER_HWID = PlaceholderMaster
    /\ authorized_file = DefaultPath
    /\ file = NoFile
    /\ created = FALSE
    /\ appends = 0
    /\ last = Call("__init__", <<>>, <<>>, FALSE, <<>>, MsgNone)
    /\ procs = NoCalls

\* get_current_hwid() on the host
GetCurrentHwidCall ==
    /\ last' = Call("get_current_hwid", GetCurrentHwid(host), <<>>, FALSE, <<>>, MsgNone)
    /\ UNCHANGED <<file, MASTER_HWID, authorized_file, created, appends, host, procs>>

\* is_master() on the host
IsMasterHostCall ==
    /\ last' = Call("is_master", GetCurrentHwid(host), <<>>,
                    IsMaster(MASTER_HWID, host), <<>>, MsgNone)
    /\ UNCHANGED <<file, MASTER_HWID, authorized_file, created, appends, host, procs>>

NextGen == GetCurrentHwidCall \/ IsMasterHostCall

SpecGen == InitGen /\ [][NextGen]_vars

(***************************************************************************)
(* The loader on its own: _load_authorized_hwids() applied to every        *)
(* content of up to MaxContent characters, and to a missing file.          *)
(***************************************************************************)
MaxContent == 4

ContentChars == {"a", "B", HASH, SPACE, NL}

Contents == UNION {[1..n -> ContentChars] : n \in 0..MaxContent}

InitLoad ==
    /\ file \in {FileOf(d) : d \in Contents} \cup {NoFile}
    /\ MASTER_HWID = GetCurrentHwid(MachineA)
    /\ authorized_file = DefaultPath
    /\ created = FALSE
    /\ appends = 0
    /\ last = Call("__init__", <<>>, <<>>, FALSE, <<>>, MsgNone)
    /\ host = MachineA
    /\ procs = NoCalls

\* _load_authorized_hwids()
LoadCall ==
    /\ last' = Call("_load_authorized_hwids", <<>>, <<>>, FALSE,
                    LoadAuthorizedHwids(file), MsgNone)
    /\ UNCHANGED <<file, MASTER_HWID, authorized_file, created, appends, host, procs>>

\* is_authorized() on the host
IsAuthorizedHostCall ==
    /\ last' = Call("is_authorized", GetCurrentHwid(host), <<>>,
                    IsAuthorized(file, host), <<>>, MsgNone)
    /\ UNCHANGED <<file, MASTER_HWID, authorized_file, created, appends, host, procs>>

NextLoad == LoadCall \/ IsAuthorizedHostCall

SpecLoad == InitLoad /\ [][NextLoad]_vars

(***************************************************************************)
(* Writing that raises after the file was opened.  open(..., 'w') has      *)
(* truncated the file by then, and open(..., 'a') has created a missing    *)
(* one; k characters of what the call was writing reached the file before  *)
(* the exception, which the call catches, prints and turns into False.     *)
(***************************************************************************)
\* add_hwid, a write raising once k characters of the new line are in the file
AddHwidWriteFails(f, master, m, arg, k) ==
    IF ~IsMaster(master, m) THEN Outcome(f, FALSE, <<>>, MsgAddDenied)
    ELSE LET authorized_hwids == LoadAuthorizedHwids(f)
             hwid == Upper(arg)
         IN  IF ~InList(hwid, authorized_hwids)
             THEN Outcome(FileOf(f.data \o SubSeq(hwid \o <<NL>>, 1, k)),
                          FALSE, <<>>, MsgAddError)
             ELSE Outcome(f, TRUE, <<>>, MsgAlready)

\* what the rewrite of lines 306-311 writes
Rewritten(f, master, m, arg) ==
    HeaderLines(m.node, master)
        \o WriteLines(ListRemove(LoadAuthorizedHwids(f), Upper(arg)))

\* remove_hwid, a write raising once k characters of the rewritten content
\* are in the file
RemoveHwidWriteFails(f, master, m, arg, k) ==
    IF ~IsMaster(master, m) THEN Outcome(f, FALSE, <<>>, MsgRemoveDenied)
    ELSE IF Upper(arg) = master THEN Outcome(f, FALSE, <<>>, MsgProtected)
    ELSE IF InList(Upper(arg), LoadAuthorizedHwids(f))
         THEN Outcome(FileOf(SubSeq(Rewritten(f, master, m, arg), 1, k)),
                      FALSE, <<>>, MsgRemoveError)
         ELSE Outcome(f, FALSE, <<>>, MsgNotFound)

\* add_hwid(arg) on machine m, its write raising after k characters
AddWriteFails(m, arg, k) ==
    LET o == AddHwidWriteFails(file, MASTER_HWID, m, arg, k)
    IN  /\ o.msg = MsgAddError
        /\ o.file # file => appends < MaxAppends
        /\ file' = o.file
        /\ appends' = IF o.file # file THEN appends + 1 ELSE appends
        /\ last' = Call("add_hwid", GetCurrentHwid(m), arg, o.ret, o.hwids, o.msg)
        /\ UNCHANGED <<MASTER_HWID, authorized_file, created, host, procs>>

\* remove_hwid(arg) on machine m, its rewrite raising after k characters
RemoveWriteFails(m, arg, k) ==
    LET o == RemoveHwidWriteFails(file, MASTER_HWID, m, arg, k)
    IN  /\ o.msg = MsgRemoveError
        /\ file' = o.file
        /\ last' = Call("remove_hwid", GetCurrentHwid(m), arg, o.ret, o.hwids, o.msg)
        /\ UNCHANGED <<MASTER_HWID, authorized_file, created, appends, host, procs>>

\* a Store just constructed on a path that held no file
InitWrite == Init /\ created

\* the calls of Next, and the two mutations meeting a write error after the
\* file was opened, with less than the whole text written
NextWrite ==
    \/ Next
    \/ \E m \in Machines, arg \in ArgStrings :
          \E k \in 0..Len(arg) : AddWriteFails(m, arg, k)
    \/ \E m \in Machines, arg \in ArgStrings :
          \E k \in 0..(Len(Rewritten(file, MASTER_HWID, m, arg)) - 1) :
             RemoveWriteFails(m, arg, k)

SpecWrite == InitWrite /\ [][NextWrite]_vars

(***************************************************************************)
(* Two processes on one file.  add_hwid and remove_hwid take no lock: a    *)
(* call loads the list (its refusals passed), and writes in a later step,  *)
(* from the list it loaded; the other process can load or write in         *)
(* between.  Each process makes one call.  An append is one step, and so   *)
(* is a rewrite.                                                           *)
(***************************************************************************)
\* add_hwid from line 266 on, authorized_hwids being the list it loaded
AddHwidWrite(f, arg, authorized_hwids) ==
    LET hwid == Upper(arg)
    IN  IF ~InList(hwid, authorized_hwids)
        THEN Outcome(FileOf(f.data \o hwid \o <<NL>>), TRUE, <<>>, MsgAdded)
        ELSE Outcome(f, TRUE, <<>>, MsgAlready)

\* fault: remove_hwid loading the list again as it writes
RemoveHwidWrite_Reloading(f, master, m, arg, authorized_hwids) ==
    LET hwid == Upper(arg)
    IN  IF InList(hwid, authorized_hwids)
        THEN Outcome(FileOf(HeaderLines(m.node, master)
                              \o WriteLines(ListRemove(LoadAuthorizedHwids(f), hwid))),
                     TRUE, <<>>, MsgRemoved)
        ELSE Outcome(f, FALSE, <<>>, MsgNotFound)

\* remove_hwid from line 300 on, authorized_hwids being the list it loaded
RemoveHwidWrite(f, master, m, arg, authorized_hwids) ==
    LET hwid == Upper(arg)
    IN  IF InList(hwid, authorized_hwids)
        THEN Outcome(FileOf(HeaderLines(m.node, master)
                              \o WriteLines(ListRemove(authorized_hwids, hwid))),
                     TRUE, <<>>, MsgRemoved)
        ELSE Outcome(f, FALSE, <<>>, MsgNotFound)

\* the calls start on any file, made by hand or by the constructor, on a
\* machine that is the master's or not; orig keeps the file they started from
InitConc ==
    /\ MASTER_HWID = GetCurrentHwid(MachineA)
    /\ authorized_file = DefaultPath
    /\ \/ /\ file \in DiskFiles \cup {NoFile}
          /\ created = FALSE
       \/ /\ file \in {CreateAuthorizedFile(m.node, MASTER_HWID) : m \in Machines}
          /\ created = TRUE
    /\ appends = 0
    /\ last = Call("__init__", <<>>, <<>>, FALSE, <<>>, MsgNone)
    /\ host \in Machines
    /\ procs = [orig |-> file, call |-> [p \in Procs |-> IdleCall]]

\* process p enters op(arg): the refusals, then _load_authorized_hwids()
CallLoad(p, op, arg) ==
    /\ procs.call[p].pc = "idle"
    /\ procs' = [procs EXCEPT !.call[p] =
         IF ~IsMaster(MASTER_HWID, host)
         THEN [pc |-> "done", op |-> op, arg |-> arg, loaded |-> <<>>, ret |-> FALSE,
               msg |-> IF op = "add_hwid" THEN MsgAddDenied ELSE MsgRemoveDenied]
         ELSE IF op = "remove_hwid" /\ Upper(arg) = MASTER_HWID
         THEN [pc |-> "done", op |-> op, arg |-> arg, loaded |-> <<>>, ret |-> FALSE,
               msg |-> MsgProtected]
         ELSE [pc |-> "loaded", op |-> op, arg |-> arg,
               loaded |-> LoadAuthorizedHwids(file), ret |-> FALSE, msg |-> MsgNone]]
    /\ UNCHANGED <<file, MASTER_HWID, authorized_file, created, appends, last, host>>

\* process p finishes its call from the list it loaded
CallWrite(p) ==
    LET c == procs.call[p]
        o == IF c.op = "add_hwid"
             THEN AddHwidWrite(file, c.arg, c.loaded)
             ELSE RemoveHwidWrite(file, MASTER_HWID, host, c.arg, c.loaded)
    IN  /\ c.pc = "loaded"
        /\ file' = o.file
        /\ procs' = [procs EXCEPT !.call[p] =
                        [c EXCEPT !.pc = "done", !.ret = o.ret, !.msg = o.msg]]
        /\ UNCHANGED <<MASTER_HWID, authorized_file, created, appends, last, host>>

\* the calls that write
ConcOps == {"add_hwid", "remove_hwid"}

NextConc ==
    \/ \E p \in Procs, op \in ConcOps, arg \in ArgStrings : CallLoad(p, op, arg)
    \/ \E p \in Procs : CallWrite(p)

SpecConc == InitConc /\ [][NextConc]_vars

(***************************************************************************)
(* Vocabulary of the properties.                                           *)
(***************************************************************************)
\* how often x occurs in list
Count(x, list) == Cardinality({i \in 1..Len(list) : list[i] = x})

\* list without any occurrence of x
Without(list, x) == SelectSeq(list, LAMBDA e : e # x)

\* the lines of a content, as the pairs <<first, last>> of positions between
\* two newlines (or an end of the content); an empty line has last = first - 1
LineSpans(d) ==
    {sp \in (1..(Len(d) + 1)) \X (0..Len(d)) :
        /\ sp[2] >= sp[1] - 1
        /\ sp[1] = 1 \/ d[sp[1] - 1] = NL
        /\ sp[2] = Len(d) \/ d[sp[2] + 1] = NL
        /\ \A k \in sp[1]..sp[2] : d[k] # NL}

\* the entries of a file, as a set: its non-blank, non-comment lines,
\* stripped and upper-cased
EntrySet(f) ==
    IF ~f.exists THEN {}
    ELSE LET texts == {Strip(SubSeq(f.data, sp[1], sp[2])) : sp \in LineSpans(f.data)}
         IN  {Upper(t) : t \in {u \in texts : u # <<>> /\ u[1] # HASH}}

\* the machines whose fingerprint is cur
MachinesOf(cur) == {m \in Machines : GetCurrentHwid(m) = cur}

Mutators == {"add_hwid", "remove_hwid"}

(***************************************************************************)
(* C1.  Non-master denial: an add_hwid or a remove_hwid called on a        *)
(* machine whose fingerprint is not the master's returns False with the    *)
(* "Only master" diagnostic (PermissionDenied) and leaves the file as it   *)
(* was, character for character, whatever the file and the argument.       *)
(***************************************************************************)
C1_NonMasterDenial ==
    [][ (last'.op \in Mutators /\ last'.cur # MASTER_HWID)
        => /\ last'.ret = FALSE
           /\ last'.msg = (IF last'.op = "add_hwid" THEN MsgAddDenied ELSE MsgRemoveDenied)
           /\ file' = file ]_vars

\* a non-master was denied the add of a fingerprint the file does not hold,
\* under a master that is set
C1_Witness ==
    /\ last.op = "add_hwid"
    /\ last.cur # MASTER_HWID
    /\ MASTER_HWID # PlaceholderMaster
    /\ last.ret = FALSE
    /\ file.exists
    /\ Upper(last.arg) \notin EntrySet(file)

(***************************************************************************)
(* C2.  The master can never be removed: once the file was written by the  *)
(* constructor, the master fingerprint is an entry of it after any         *)
(* sequence of calls by any callers with any arguments.                    *)
(***************************************************************************)
C2_MasterStays == created => MASTER_HWID \in EntrySet(file)

\* a removal succeeded on a file the constructor wrote
C2_Witness ==
    /\ created
    /\ last.op = "remove_hwid"
    /\ last.ret = TRUE
    /\ MASTER_HWID \in EntrySet(file)

(***************************************************************************)
(* C3.  Master protection.  As claimed: remove_hwid of the master          *)
(* fingerprint, in any letter case, is refused as ProtectedEntry whoever   *)
(* calls.                                                                  *)
(***************************************************************************)
C3_Original ==
    (last.op = "remove_hwid" /\ Upper(last.arg) = MASTER_HWID)
    => (last.ret = FALSE /\ last.msg = MsgProtected)

(***************************************************************************)
(* C3, amended.  remove_hwid of the master fingerprint, in any letter      *)
(* case, never modifies the file and returns False, whoever calls: with    *)
(* the ProtectedEntry diagnostic when the caller is the master, with the   *)
(* PermissionDenied one when it is not.                                    *)
(***************************************************************************)
C3_MasterProtection ==
    [][ (last'.op = "remove_hwid" /\ Upper(last'.arg) = MASTER_HWID)
        => /\ file' = file
           /\ last'.ret = FALSE
           /\ last'.msg = (IF last'.cur = MASTER_HWID THEN MsgProtected ELSE MsgRemoveDenied) ]_vars

\* the master asked for the removal of its own fingerprint, in lower case
C3_Witness ==
    /\ last.op = "remove_hwid"
    /\ last.cur = MASTER_HWID
    /\ last.arg # MASTER_HWID
    /\ Upper(last.arg) = MASTER_HWID
    /\ last.msg = MsgProtected
    /\ MASTER_HWID \in EntrySet(file)

(***************************************************************************)
(* C4.  Idempotent add.  As claimed: after the master's add of a           *)
(* fingerprint that is already present, the allow-list holds exactly one   *)
(* occurrence of it.                                                       *)
(***************************************************************************)
C4_Original ==
    (last.op = "add_hwid" /\ last.cur = MASTER_HWID /\ last.msg = MsgAlready)
    => Count(Upper(last.arg), LoadAuthorizedHwids(file)) = 1

(***************************************************************************)
(* C4, amended.  When the master adds a fingerprint that is already        *)
(* present (compared after upper-casing), the call returns True and leaves *)
(* the file unmodified, and so does the same call made again: the          *)
(* allow-list holds as many occurrences of it as before, exactly one when  *)
(* it held one.                                                            *)
(***************************************************************************)
C4_IdempotentAdd ==
    [][ (/\ last'.op = "add_hwid"
         /\ last'.cur = MASTER_HWID
         /\ InList(Upper(last'.arg), LoadAuthorizedHwids(file)))
        => /\ last'.ret = TRUE
           /\ file' = file
           /\ \A m \in MachinesOf(last'.cur) :
                 LET again == AddHwid(file', MASTER_HWID, m, last'.arg)
                 IN  /\ again.ret = TRUE
                     /\ again.file = file
                     /\ Count(Upper(last'.arg), LoadAuthorizedHwids(again.file))
                           = Count(Upper(last'.arg), LoadAuthorizedHwids(file)) ]_vars

\* the master added, in lower case, a fingerprint the list holds once
C4_Witness ==
    /\ last.op = "add_hwid"
    /\ last.cur = MASTER_HWID
    /\ last.msg = MsgAlready
    /\ last.ret = TRUE
    /\ last.arg # Upper(last.arg)
    /\ Count(Upper(last.arg), LoadAuthorizedHwids(file)) = 1

\* a well-formed fingerprint argument: not empty, no blank, no comment marker
WellFormed(arg) ==
    /\ arg # <<>>
    /\ \A i \in 1..Len(arg) : arg[i] \notin {SPACE, NL, HASH}

(***************************************************************************)
(* C5.  Remove-then-list round trip.  As claimed: whatever the file, after *)
(* the master's add_hwid(F) and remove_hwid(F) of a fingerprint F other    *)
(* than the master, list_authorized_hwids() does not contain F and holds   *)
(* every other original entry in its original order.  Stated on the add    *)
(* step, the two calls that follow it being made on the file it leaves.    *)
(***************************************************************************)
C5_Original ==
    [][ (/\ last'.op = "add_hwid"
         /\ last'.cur = MASTER_HWID
         /\ WellFormed(last'.arg)
         /\ Upper(last'.arg) # MASTER_HWID)
        => \A m \in MachinesOf(last'.cur) :
              LET F == Upper(last'.arg)
                  removed == RemoveHwid(file', MASTER_HWID, m, last'.arg)
                  listed == ListAuthorizedHwids(removed.file, MASTER_HWID, m).hwids
              IN  /\ ~InList(F, listed)
                  /\ listed = Without(LoadAuthorizedHwids(file), F) ]_vars

(***************************************************************************)
(* C6.  Authorization correctness: is_authorized() returns True exactly    *)
(* when the caller's fingerprint is one of the entries of the file: one of *)
(* its non-blank, non-comment lines, stripped and upper-cased.             *)
(***************************************************************************)
C6_AuthorizationCorrect ==
    last.op = "is_authorized" => (last.ret <=> last.cur \in EntrySet(file))

\* a machine other than the master's was found among several entries
C6_Witness ==
    /\ last.op = "is_authorized"
    /\ last.ret = TRUE
    /\ last.cur # MASTER_HWID
    /\ Cardinality(EntrySet(file)) >= 2

(***************************************************************************)
(* C7.  Master gating.  As claimed: on the master's machine is_master() is *)
(* True, and add_hwid(F) of a well-formed fingerprint F that is not yet    *)
(* present returns True and appends exactly one line: the loaded list is   *)
(* the previous one followed by F, every line the file had is unchanged,   *)
(* and is_authorized() on a machine whose fingerprint is F is then True.   *)
(***************************************************************************)
C7_Original ==
    [][ (/\ last'.op = "add_hwid"
         /\ last'.cur = MASTER_HWID
         /\ WellFormed(last'.arg)
         /\ ~InList(Upper(last'.arg), LoadAuthorizedHwids(file)))
        => /\ \A m \in MachinesOf(last'.cur) : IsMaster(MASTER_HWID, m)
           /\ last'.ret = TRUE
           /\ LoadAuthorizedHwids(file') = Append(LoadAuthorizedHwids(file), Upper(last'.arg))
           /\ ReadLines(file'.data) = Append(ReadLines(file.data), Upper(last'.arg) \o <<NL>>)
           /\ \A m \in MachinesOf(Upper(last'.arg)) : IsAuthorized(file', m) ]_vars

(***************************************************************************)
(* C8.  Case normalization.  As claimed: once the master's add_hwid(x) of  *)
(* a well-formed fingerprint has returned True, is_authorized() is True on *)
(* every machine whose fingerprint equals x up to letter case.             *)
(***************************************************************************)
C8_Original ==
    (/\ last.op = "add_hwid"
     /\ last.cur = MASTER_HWID
     /\ last.ret = TRUE
     /\ WellFormed(last.arg))
    => \A m \in Machines :
          Upper(GetCurrentHwid(m)) = Upper(last.arg) => IsAuthorized(file, m)

(***************************************************************************)
(* C9.  Explicit error kinds.  As claimed: what a refused call returns     *)
(* tells its kind: a not-found removal or a failed write returns something *)
(* else than the same call denied to a non-master, and a denied            *)
(* list_authorized_hwids() something else than the list of an empty        *)
(* allow-list.                                                             *)
(***************************************************************************)
C9_Original ==
    /\ (last.op = "remove_hwid" /\ last.msg \in {MsgNotFound, MsgProtected, MsgRemoveError})
       => \A m \in Machines :
             ~IsMaster(MASTER_HWID, m)
             => RemoveHwid(file, MASTER_HWID, m, last.arg).ret # last.ret
    /\ (last.op = "list_authorized_hwids" /\ last.msg = MsgListDenied)
       => last.hwids # <<>>

(***************************************************************************)
(* C9, amended.  add_hwid and remove_hwid return a bare boolean: True for  *)
(* a fresh add, an add already satisfied and a removal; False alike for a  *)
(* denied call, a protected-entry refusal, a not-found removal and a       *)
(* persistence failure, which differ only in the diagnostic printed.  A    *)
(* denied list_authorized_hwids() returns the empty list, as a list of an  *)
(* empty allow-list does.                                                  *)
(***************************************************************************)
C9_BooleanOutcomes ==
    /\ last.op = "add_hwid"
       => /\ last.msg \in {MsgAdded, MsgAlready, MsgAddDenied, MsgAddError}
          /\ last.ret = (last.msg \in {MsgAdded, MsgAlready})
    /\ last.op = "remove_hwid"
       => /\ last.msg \in {MsgRemoved, MsgRemoveDenied, MsgProtected, MsgNotFound, MsgRemoveError}
          /\ last.ret = (last.msg = MsgRemoved)
    /\ (last.op = "list_authorized_hwids" /\ last.msg = MsgListDenied)
       => last.hwids = <<>>

\* the master's removal failed to open the file, on an allow-list that a
\* not-found removal and a denied one leave with the same False
C9_Witness ==
    /\ last.op = "remove_hwid"
    /\ last.msg = MsgRemoveError
    /\ last.ret = FALSE
    /\ \E m \in Machines, arg \in ArgStrings :
          /\ RemoveHwid(file, MASTER_HWID, m, arg).msg = MsgNotFound
          /\ RemoveHwid(file, MASTER_HWID, m, arg).ret = FALSE

(***************************************************************************)
(* C10.  Queries are read-only: is_authorized() and is_master() leave the  *)
(* file, missing or not, and the Store's master fingerprint and path as    *)
(* they were.                                                              *)
(***************************************************************************)
C10_QueriesReadOnly ==
    [][ last'.op \in {"is_authorized", "is_master"}
        => /\ file' = file
           /\ MASTER_HWID' = MASTER_HWID
           /\ authorized_file' = authorized_file ]_vars

\* is_authorized() answered on a missing file, which is still missing
C10_Witness ==
    /\ last.op = "is_authorized"
    /\ last.ret = FALSE
    /\ ~file.exists

(***************************************************************************)
(* C11.  Fail-closed queries, as claimed: an is_authorized() whose read of *)
(* the file raised, or that found the file missing, returns False for      *)
(* every caller, the master included (the load resolving to no entry).     *)
(* The code returns the entries read before the error.                     *)
(***************************************************************************)
C11_Original ==
    (last.op = "is_authorized" /\ (last.msg = MsgLoadError \/ ~file.exists))
        => last.ret = FALSE

\* the components of machine m that are usable: answered, and not empty
UsableComponents(m) ==
    IF m.system \in {"windows", "linux", "darwin"}
    THEN {i \in 1..Len(m.probes) : m.probes[i].ok /\ m.probes[i].val # <<>>}
    ELSE {i \in 1..3 : <<m.node, m.machine, m.processor>>[i] # <<>>}

\* the fingerprint of the generic fallback string of machine m
FallbackHwid(m) == Upper(Truncate(Sha256Hex(m.node \o m.machine \o m.processor)))

(***************************************************************************)
(* C12.  Degraded-fingerprint fallback, as claimed: on a machine whose     *)
(* collection yields no usable component (every probe raised or answered   *)
(* nothing, or the pipeline raised), get_current_hwid() is the hash of the *)
(* generic fallback string, not the hash of the empty join.  The code      *)
(* takes the fallback only when an exception reaches get_current_hwid.     *)
(***************************************************************************)
C12_Original ==
    (last.op = "get_current_hwid" /\ (host.raises \/ UsableComponents(host) = {}))
        => last.cur = FallbackHwid(host)

(***************************************************************************)
(* C13.  Construction bootstrap: a constructor that finds no file creates  *)
(* it as three comment lines followed by the master line, so that the      *)
(* loaded allow-list is exactly [master]; a constructor that finds a file  *)
(* leaves it unchanged, whatever it holds, so constructing again changes   *)
(* nothing.                                                                *)
(***************************************************************************)
C13_ConstructionBootstrap ==
    [][ last'.op = "__init__"
        => IF file.exists
           THEN file' = file
           ELSE /\ file'.exists
                /\ LET lines == ReadLines(file'.data)
                   IN  /\ Len(lines) = 4
                       /\ \A i \in 1..3 : lines[i][1] = HASH
                       /\ lines[4] = MASTER_HWID \o <<NL>>
                /\ LoadAuthorizedHwids(file') = <<MASTER_HWID>>
                /\ EntrySet(file') = {MASTER_HWID} ]_vars

\* a constructor ran on a machine and the file is the one a constructor
\* writes, nothing added since
C13_Witness ==
    /\ last.op = "__init__"
    /\ last.cur # <<>>
    /\ created
    /\ MASTER_HWID # PlaceholderMaster
    /\ LoadAuthorizedHwids(file) = <<MASTER_HWID>>
    /\ Len(ReadLines(file.data)) = 4

(***************************************************************************)
(* C16.  Remove of an absent target: when the caller is the master and the *)
(* upper-cased target is neither the master nor an entry of the loaded     *)
(* allow-list, remove_hwid returns False with the "not found" diagnostic   *)
(* and the file keeps its content character for character, comment lines   *)
(* and lower-case entries included.                                        *)
(***************************************************************************)
C16_RemoveAbsent ==
    [][ ( /\ last'.op = "remove_hwid"
          /\ last'.cur = MASTER_HWID
          /\ Upper(last'.arg) # MASTER_HWID
          /\ Upper(last'.arg) \notin EntrySet(file) )
        => /\ last'.ret = FALSE
           /\ last'.msg = MsgNotFound
           /\ file' = file ]_vars

\* the master was told "not found" on a file that holds a comment line of
\* its own and a lower-case entry
C16_Witness ==
    /\ last.op = "remove_hwid"
    /\ last.msg = MsgNotFound
    /\ ~created
    /\ \E i \in 1..Len(file.data) : file.data[i] = HASH
    /\ \E i \in 1..Len(file.data) : file.data[i] = "b"

\* list holds no element twice
NoDuplicates(list) == \A i, j \in 1..Len(list) : list[i] = list[j] => i = j

(***************************************************************************)
(* C15.  Uniqueness, as claimed: on a file created by the constructor and  *)
(* changed since only by add_hwid and remove_hwid calls made one at a      *)
(* time, with no write failure, the loaded allow-list never holds the same *)
(* fingerprint twice.  add_hwid tests and writes the argument unstripped,  *)
(* while the loader strips each line.                                      *)
(***************************************************************************)
C15_Original == created => NoDuplicates(LoadAuthorizedHwids(file))

\* the lines of content d in file order, each without its newline
LineTexts(d) ==
    LET S == LineSpans(d)
        nth(i) == CHOOSE sp \in S : Cardinality({t \in S : t[1] < sp[1]}) = i - 1
    IN  [i \in 1..Cardinality(S) |-> SubSeq(d, nth(i)[1], nth(i)[2])]

\* text has a character that is not white space
NonBlank(text) == \E i \in 1..Len(text) : ~IsSpace(text[i])

\* f applied to each element of list
MapSeq(f(_), list) == [i \in 1..Len(list) |-> f(list[i])]

(***************************************************************************)
(* C17.  Load semantics, as claimed: the loaded allow-list is the sequence *)
(* of the file's lines, in file order, that are not blank and do not begin *)
(* with '#', each upper-cased; a missing file loads as the empty sequence. *)
(***************************************************************************)
C17_Original ==
    last.op = "_load_authorized_hwids"
        => last.hwids =
             IF ~file.exists THEN <<>>
             ELSE MapSeq(Upper,
                         SelectSeq(LineTexts(file.data),
                                   LAMBDA t : NonBlank(t) /\ t[1] # HASH))

(***************************************************************************)
(* C17, amended.  Load semantics: the loaded allow-list is the sequence,   *)
(* in file order, of the file's lines stripped of their leading and        *)
(* trailing white space, keeping those that are then non-empty and do not  *)
(* begin with '#', each upper-cased; a missing file loads as the empty     *)
(* sequence.                                                               *)
(***************************************************************************)
C17_LoadSemantics ==
    last.op = "_load_authorized_hwids"
        => last.hwids =
             IF ~file.exists THEN <<>>
             ELSE MapSeq(Upper,
                         SelectSeq(MapSeq(Strip, LineTexts(file.data)),
                                   LAMBDA t : t # <<>> /\ t[1] # HASH))

\* a content with an indented lower-case entry before a second entry was
\* loaded
C17_Witness ==
    /\ last.op = "_load_authorized_hwids"
    /\ file.data = <<SPACE, "a", NL, "B">>
    /\ last.hwids = << <<"A">>, <<"B">> >>

(***************************************************************************)
(* C18.  Revocation takes effect, as claimed: right after a remove_hwid(F) *)
(* that returned True, F other than the master, F is not an entry of the   *)
(* loaded allow-list and is_authorized() on a machine whose fingerprint is *)
(* F returns False.  list.remove drops one occurrence only.                *)
(***************************************************************************)
C18_Original ==
    (last.op = "remove_hwid" /\ last.ret = TRUE /\ Upper(last.arg) # MASTER_HWID)
        => /\ ~InList(Upper(last.arg), LoadAuthorizedHwids(file))
           /\ \A m \in MachinesOf(Upper(last.arg)) : ~IsAuthorized(file, m)

(***************************************************************************)
(* C19.  Failed mutations are atomic, as claimed: an add_hwid or a         *)
(* remove_hwid that returns False, a write error raised after the file was *)
(* opened for writing included, leaves the loaded allow-list exactly as it *)
(* was before the call, the master entry still present.  remove_hwid has   *)
(* truncated the file when its write raises.                               *)
(***************************************************************************)
C19_Original ==
    [][ (last'.op \in Mutators /\ last'.ret = FALSE)
        => /\ LoadAuthorizedHwids(file') = LoadAuthorizedHwids(file)
           /\ (MASTER_HWID \in EntrySet(file) => MASTER_HWID \in EntrySet(file')) ]_vars

\* the content is empty or ends with a newline
NewlineTerminated(f) == f.data = <<>> \/ f.data[Len(f.data)] = NL

(***************************************************************************)
(* C14.  Multi-process race: the last writer wins.  When a process         *)
(* completes the rewrite of a remove_hwid, the allow-list is the list that *)
(* process loaded, less its target, whatever the other process wrote since *)
(* that load; so a fingerprint appended by a concurrent add_hwid that      *)
(* returned True is lost although no remove targeted it (the witness is    *)
(* such an interleaving).                                                  *)
(***************************************************************************)
C14_LastWriterWins ==
    [][ \A p \in Procs :
          ( /\ procs.call[p].pc = "loaded"
            /\ procs'.call[p].pc = "done"
            /\ procs.call[p].op = "remove_hwid"
            /\ procs'.call[p].ret = TRUE )
          => /\ LoadAuthorizedHwids(file')
                  = ListRemove(procs.call[p].loaded, Upper(procs.call[p].arg))
             /\ \A F \in {Upper(a) : a \in ArgStrings} :
                  ~InList(F, procs.call[p].loaded)
                     => ~InList(F, LoadAuthorizedHwids(file')) ]_vars

\* the lost update: on a file that ended with a newline, one process's
\* add_hwid(F) appended and returned True, the other's remove_hwid of another
\* fingerprint rewrote and returned True, and F is not in the allow-list
C14_Witness ==
    \E p, q \in Procs :
        /\ p # q
        /\ NewlineTerminated(procs.orig)
        /\ procs.call[p].pc = "done" /\ procs.call[q].pc = "done"
        /\ procs.call[p].op = "add_hwid" /\ procs.call[p].msg = MsgAdded
        /\ procs.call[p].ret = TRUE
        /\ procs.call[q].op = "remove_hwid" /\ procs.call[q].msg = MsgRemoved
        /\ WellFormed(procs.call[p].arg)
        /\ Upper(procs.call[q].arg) # Upper(procs.call[p].arg)
        /\ ~InList(Upper(procs.call[p].arg), LoadAuthorizedHwids(file))

\* the elements of list that are in keep, in the order of list
Restrict(list, keep) == SelectSeq(list, LAMBDA e : InList(e, keep))

(***************************************************************************)
(* C20.  Concurrent adds lose no update, as claimed: when both processes   *)
(* have returned from add_hwid calls of two distinct well-formed           *)
(* fingerprints F and G that the allow-list did not hold, then under every *)
(* interleaving of their loads and appends both F and G are entries, and   *)
(* the entries held before are still there in their order.                 *)
(***************************************************************************)
C20_Original ==
    \A p, q \in Procs :
        LET F == Upper(procs.call[p].arg)
            G == Upper(procs.call[q].arg)
            before == LoadAuthorizedHwids(procs.orig)
            after == LoadAuthorizedHwids(file)
        IN  ( /\ p # q
              /\ procs.call[p].pc = "done" /\ procs.call[q].pc = "done"
              /\ procs.call[p].op = "add_hwid" /\ procs.call[q].op = "add_hwid"
              /\ procs.call[p].ret = TRUE /\ procs.call[q].ret = TRUE
              /\ WellFormed(procs.call[p].arg) /\ WellFormed(procs.call[q].arg)
              /\ F # G
              /\ ~InList(F, before) /\ ~InList(G, before) )
            => /\ InList(F, after)
               /\ InList(G, after)
               /\ Restrict(after, before) = before

====
